---- MODULE Spec2Model ----
(***************************************************************************)
(* A model of album_art_fixer.py: the tree walker process_mp3_files, the   *)
(* per-file task process_single_file / find_and_set_new_album_art, the     *)
(* catalog lookup and artwork download download_album_art_from_itunes and  *)
(* the tag writer set_album_art_in_audio_file.                             *)
(*                                                                         *)
(* Strings are sequences of one-character strings, so that split, lower,   *)
(* endswith, replace and join are computed as the code computes them.      *)
(* An optional value (Python None or a value) is <<>> or <<value>>.        *)
(***************************************************************************)
EXTENDS Integers, Sequences, FiniteSets, TLC

VARIABLES
    tree,         \* the directory tree walked: directory path -> [dirs, files]
    tags,         \* audio file path -> its ID3 container on disk (optional set of frames)
    tmpfs,        \* temporary directories on disk: name -> (file name -> bytes)
    tmpCount,     \* how many temporary directories mkdtemp has made so far
    stack,        \* the call stack of process_mp3_files, innermost call last
    pool,         \* the event loop's tasks: task id -> the task's coroutine state
    nextTask,     \* how many tasks asyncio.create_task has made so far
    log,          \* the paths of g_logger.error calls, in order
    invocations,  \* audio file path -> how many File Processor tasks were made for it
    returned,     \* the outermost call's return value (optional list of paths)
    raised        \* whether an exception left the outermost call

vars == <<tree, tags, tmpfs, tmpCount, stack, pool, nextTask, log, invocations,
          returned, raised>>

(***************************************************************************)
(* Bounds.                                                                  *)
(***************************************************************************)
\* the largest number of result records in a catalog response
MaxResults == 2

(***************************************************************************)
(* String functions.                                                        *)
(***************************************************************************)
sep == "/"

Min(a, b) == IF a < b THEN a ELSE b

LowerChar(c) ==
    CASE c = "B" -> "b"
      [] c = "M" -> "m"
      [] c = "P" -> "p"
      [] OTHER -> c

\* str.lower()
lower(s) == [i \in 1..Len(s) |-> LowerChar(s[i])]

\* str.endswith(suffix)
endswith(s, suffix) ==
    /\ Len(suffix) <= Len(s)
    /\ SubSeq(s, Len(s) - Len(suffix) + 1, Len(s)) = suffix

\* the positions of character c in s
Positions(s, c) == {i \in 1..Len(s) : s[i] = c}

SetMin(S) == CHOOSE x \in S : \A y \in S : x <= y
SetMax(S) == CHOOSE x \in S : \A y \in S : x >= y

\* s.split(c)[0]: everything before the first c (all of s when it holds no c)
SplitFirst(s, c) ==
    IF Positions(s, c) = {} THEN s ELSE SubSeq(s, 1, SetMin(Positions(s, c)) - 1)

\* s.split(c)[-1]: everything after the last c (all of s when it holds no c)
SplitLast(s, c) ==
    IF Positions(s, c) = {} THEN s ELSE SubSeq(s, SetMax(Positions(s, c)) + 1, Len(s))

\* s.replace(a, b) for single characters a and b
ReplaceChar(s, a, b) == [i \in 1..Len(s) |-> IF s[i] = a THEN b ELSE s[i]]

\* os.path.join(root, name), for a root that does not end in the separator
\* and a relative name
join(root, name) == root \o <<sep>> \o name

mp3_suffix == <<".", "m", "p", "3">>
jpg_suffix == <<".", "j", "p", "g">>

\* line 89: the walker's file filter
IsMp3(file) == endswith(lower(file), mp3_suffix)

\* line 77: the search title of a song path
SongTitle(song_path) == SplitFirst(SplitLast(song_path, sep), ".")

\* line 79: the artwork file's name inside the temporary directory
AlbumArtName(song_title) == ReplaceChar(song_title, " ", "_") \o jpg_suffix

\* line 46: urllib.parse.quote of the title (a space becomes the escape %20)
quote(song_title) == ReplaceChar(song_title, " ", "%20")

(***************************************************************************)
(* The directory trees walked.  A tree maps each directory path to its     *)
(* listing: the names of its subdirectories and of its non-directory       *)
(* entries, in the order os.walk lists them.                               *)
(***************************************************************************)
a_mp3   == <<"a", ".", "m", "p", "3">>
a_b_mp3 == <<"a", ".", "b", ".", "m", "p", "3">>
B_MP3   == <<"B", ".", "M", "P", "3">>
c_d_mp3 == <<"c", " ", "d", ".", "m", "p", "3">>
n_txt   == <<"n", ".", "t", "x", "t">>
d_dir   == <<"d">>
e_dir   == <<"e">>

\* line 106: the directory the run starts at
songs == <<sep, "s">>

Listing(dirs, files) == [dirs |-> dirs, files |-> files]

\* one level: a non-matching file listed before two matching ones
TreeFlat ==
    (songs :> Listing(<<>>, <<n_txt, a_mp3, a_b_mp3>>))

\* two levels, a matching file at each
TreeDeep ==
    (songs :> Listing(<<d_dir>>, <<a_mp3>>))
    @@ (join(songs, d_dir) :> Listing(<<>>, <<n_txt, B_MP3>>))

\* three levels, one below the other, a matching file at the deepest
TreeChain ==
    (songs :> Listing(<<d_dir>>, <<n_txt>>))
    @@ (join(songs, d_dir) :> Listing(<<e_dir>>, <<>>))
    @@ (join(join(songs, d_dir), e_dir) :> Listing(<<>>, <<c_d_mp3>>))

\* two sibling subdirectories, no matching file at the top
TreeWide ==
    (songs :> Listing(<<d_dir, e_dir>>, <<n_txt>>))
    @@ (join(songs, d_dir) :> Listing(<<>>, <<a_mp3>>))
    @@ (join(songs, e_dir) :> Listing(<<>>, <<>>))

Trees == {TreeFlat, TreeDeep, TreeChain, TreeWide}

\* the paths of the non-directory entries of a tree
FilePaths(t) ==
    UNION {{join(dir, t[dir].files[i]) : i \in 1..Len(t[dir].files)} : dir \in DOMAIN t}

\* the audio files of a tree: the paths the walker's filter matches
Mp3Paths(t) == {p \in FilePaths(t) : IsMp3(SplitLast(p, sep))}

(***************************************************************************)
(* The ID3 container (mutagen).  A container is a set of frames, at most   *)
(* one for each hash key; the hash key of an APIC frame is its description.*)
(***************************************************************************)
Cover == <<"Cover">>

\* the frame built with another picture type and MIME type
APIC_other(img_data) ==
    [encoding |-> 3, mime |-> "image/png", type |-> 0, desc |-> Cover, data |-> img_data]

\* lines 34-40: the frame the tag writer builds from the image data
APIC(img_data) ==
    [encoding |-> 3, mime |-> "image/jpeg", type |-> 3, desc |-> Cover, data |-> img_data]

\* a cover frame left in a file by an earlier run of some tool
OldApic == [encoding |-> 3, mime |-> "image/jpeg", type |-> 3, desc |-> Cover,
            data |-> [image |-> 0, size |-> "100x100"]]

\* line 33, ID3.add: a frame whose hash key is taken is merged with the frame
\* that holds the key; merging two APIC frames appends a space to the
\* description of the new one, and the add is tried again
RECURSIVE AddFrame(_, _)
AddFrame(frames, frame) ==
    IF \E f \in frames : f.desc = frame.desc
    THEN AddFrame(frames, [frame EXCEPT !.desc = Append(@, " ")])
    ELSE frames \cup {frame}

\* line 28, MP3.add_tags: an empty container when the file has none; when it
\* has one add_tags raises, and lines 29-30 swallow the error
AddTags(audio) == IF audio = <<>> THEN <<{}>> ELSE audio

\* lines 27-41: the container after add_tags and tags.add
TagsWithCover(audio, img_data) == <<AddFrame(AddTags(audio)[1], APIC(img_data))>>

\* the containers the audio files of a tree start with: B.MP3 already holds a
\* cover frame, the other files hold no tag structure
InitialTags(t) ==
    [p \in Mp3Paths(t) |-> IF SplitLast(p, sep) = B_MP3 THEN <<{OldApic}>> ELSE <<>>]

(***************************************************************************)
(* The catalog service and the artwork server.                              *)
(***************************************************************************)
WithArt(i) == [trackId |-> i, artworkUrl100 |-> [art |-> i, size |-> "100x100"]]
NoArt(i)   == [trackId |-> i]

\* the responses of the search endpoint: resultCount records, each with or
\* without the field artworkUrl100 (the service reports as resultCount the
\* number of records it sends; line 55 reads resultCount, not len(results))
Responses ==
    UNION {{[resultCount |-> n,
             results |-> [i \in 1..n |-> IF i \in S THEN WithArt(i) ELSE NoArt(i)]]
              : S \in SUBSET (1..n)} : n \in 0..MaxResults}

\* the statuses the artwork server answers with
Statuses == {200, 404}

\* the body the artwork server sends for a URL
Body(url) == [image |-> url.art, size |-> url.size]

\* line 58: .replace("100x100", "256x256")
Upgrade(url) == IF url.size = "100x100" THEN [url EXCEPT !.size = "256x256"] ELSE url

\* line 57: "artworkUrl100" in result
HasArt(result) == "artworkUrl100" \in DOMAIN result

\* the loop of line 55 left after the first record that has an artwork URL
NextCandidate_first(data, res_i) ==
    LET C == {i \in 1..data.resultCount : HasArt(data.results[i])}
    IN  IF C = {} \/ res_i > SetMin(C) THEN 0 ELSE SetMin(C)

\* lines 55-57: the first index from res_i on, within resultCount, whose record
\* has an artwork URL; 0 when the loop ends without one
NextCandidate(data, res_i) ==
    LET C == {i \in res_i..data.resultCount : HasArt(data.results[i])}
    IN  IF C = {} THEN 0 ELSE SetMin(C)

(***************************************************************************)
(* State.                                                                   *)
(***************************************************************************)
\* a call of process_mp3_files(dir_path): its local variables and position
Frame(dir_path) ==
    [dir_path |-> dir_path,
     walk     |-> <<dir_path>>,   \* the directories os.walk has still to yield
     root     |-> <<>>,
     dirs     |-> <<>>,
     files    |-> <<>>,
     tasks    |-> <<>>,           \* ids of the tasks made for the current level
     failures |-> <<>>,
     i        |-> 1,              \* position in the loop over files or over dirs
     pc       |-> "walk"]

\* the coroutine of process_single_file(mp3_path), not yet started
Task(mp3_path) ==
    [mp3_path       |-> mp3_path,
     pc             |-> "scheduled",
     song_title     |-> <<>>,
     query          |-> <<>>,
     temp_dir       |-> 0,
     album_art_name |-> <<>>,
     data           |-> <<>>,     \* optional: the parsed search response
     res_i          |-> 0,
     requests       |-> <<>>,     \* the artwork URLs requested, in order
     written        |-> FALSE,    \* whether the destination file was written
     audio          |-> <<>>,     \* the container loaded by the tag writer
     tagsBefore     |-> <<>>,     \* the file's container when the task started
     tagWriter      |-> FALSE,    \* whether set_album_art_in_audio_file was called
     img_data       |-> <<>>,     \* optional: the bytes read from the image file
     exc            |-> "None"]

Finished == {"ok", "failed"}

Top == stack[Len(stack)]

SetTop(frame) == [stack EXCEPT ![Len(stack)] = frame]

Init ==
    /\ tree \in Trees
    /\ tags = InitialTags(tree)
    /\ tmpfs = <<>>
    /\ tmpCount = 0
    /\ stack = <<Frame(songs)>>
    /\ pool = <<>>
    /\ nextTask = 0
    /\ log = <<>>
    /\ invocations = [p \in Mp3Paths(tree) |-> 0]
    /\ returned = <<>>
    /\ raised = FALSE

(***************************************************************************)
(* The tree walker, process_mp3_files.                                      *)
(***************************************************************************)
\* os.walk, top-down: the next directory is yielded with its listing, and its
\* subdirectories are walked, in order, before the directories still waiting
WalkAfter(walk) ==
    [d \in 1..Len(tree[Head(walk)].dirs) |-> join(Head(walk), tree[Head(walk)].dirs[d])]
        \o Tail(walk)

\* line 86, an iteration of the loop over os.walk; line 87
WalkNext ==
    /\ stack # <<>>
    /\ Top.pc = "walk"
    /\ Top.walk # <<>>
    /\ stack' = SetTop([Top EXCEPT !.root = Head(Top.walk),
                                   !.dirs = tree[Head(Top.walk)].dirs,
                                   !.files = tree[Head(Top.walk)].files,
                                   !.walk = WalkAfter(Top.walk),
                                   !.tasks = <<>>,
                                   !.i = 1,
                                   !.pc = "dispatch"])
    /\ UNCHANGED <<tree, tags, tmpfs, tmpCount, pool, nextTask, log, invocations,
                   returned, raised>>

\* lines 88-92, one iteration of the loop over files: a task is made for a
\* matching file; it does not run before the walker awaits
Dispatch ==
    /\ stack # <<>>
    /\ Top.pc = "dispatch"
    /\ Top.i <= Len(Top.files)
    /\ IF IsMp3(Top.files[Top.i])
       THEN LET mp3_path == join(Top.root, Top.files[Top.i])
            IN  /\ nextTask' = nextTask + 1
                /\ pool' = pool @@ (nextTask + 1 :> Task(mp3_path))
                /\ invocations' = [invocations EXCEPT ![mp3_path] = @ + 1]
                /\ stack' = SetTop([Top EXCEPT !.tasks = Append(@, nextTask + 1),
                                               !.i = @ + 1])
       ELSE /\ stack' = SetTop([Top EXCEPT !.i = @ + 1])
            /\ UNCHANGED <<pool, nextTask, invocations>>
    /\ UNCHANGED <<tree, tags, tmpfs, tmpCount, log, returned, raised>>

\* line 93: the loop over files is over and the walker awaits asyncio.gather
AwaitGather ==
    /\ stack # <<>>
    /\ Top.pc = "dispatch"
    /\ Top.i > Len(Top.files)
    /\ stack' = SetTop([Top EXCEPT !.pc = "gather"])
    /\ UNCHANGED <<tree, tags, tmpfs, tmpCount, pool, nextTask, log, invocations,
                   returned, raised>>

\* gather called without return_exceptions
return_exceptions_off == FALSE

\* line 93: return_exceptions=True
return_exceptions == TRUE

\* line 93: what gather puts in results for a task
ResultOf(task) ==
    IF task.pc = "ok" THEN "None" ELSE IF task.pc = "failed" THEN task.exc ELSE "pending"

\* a wait that ends with the first task that is done
GatherDone_first(tasks) == \E n \in 1..Len(tasks) : pool[tasks[n]].pc \in Finished

\* line 93: gather is done when each of its tasks is
GatherDone(tasks) == \A n \in 1..Len(tasks) : pool[tasks[n]].pc \in Finished

\* line 93: without return_exceptions, gather raises the first exception of a task
GatherRaises(tasks) ==
    /\ ~return_exceptions
    /\ \E n \in 1..Len(tasks) : pool[tasks[n]].pc = "failed"

\* line 95: the paths paired with the results by zip(files, results)
ZipPaths(root, files, results) ==
    [n \in 1..Min(Len(files), Len(results)) |-> join(root, files[n])]

\* lines 93-96: gather returns its results, the level's entries are added to
\* failures, and the finished tasks are no longer referred to
Gather ==
    /\ stack # <<>>
    /\ Top.pc = "gather"
    /\ GatherRaises(Top.tasks) \/ GatherDone(Top.tasks)
    /\ IF GatherRaises(Top.tasks)
       THEN /\ stack' = <<>>
            /\ raised' = TRUE
            /\ UNCHANGED pool
       ELSE LET results == [n \in 1..Len(Top.tasks) |-> ResultOf(pool[Top.tasks[n]])]
                done == {k \in DOMAIN pool : pool[k].pc \in Finished}
            IN  /\ stack' = SetTop([Top EXCEPT
                        !.failures = @ \o ZipPaths(Top.root, Top.files, results),
                        !.i = 1,
                        !.pc = "recurse"])
                /\ pool' = [k \in DOMAIN pool \ done |-> pool[k]]
                /\ UNCHANGED raised
    /\ UNCHANGED <<tree, tags, tmpfs, tmpCount, nextTask, log, invocations, returned>>

\* lines 97-98, one iteration of the loop over dirs: the recursive call
Recurse ==
    /\ stack # <<>>
    /\ Top.pc = "recurse"
    /\ Top.i <= Len(Top.dirs)
    /\ stack' = Append(SetTop([Top EXCEPT !.pc = "call"]),
                       Frame(join(Top.root, Top.dirs[Top.i])))
    /\ UNCHANGED <<tree, tags, tmpfs, tmpCount, pool, nextTask, log, invocations,
                   returned, raised>>

\* line 97: the loop over dirs is over; back to line 86
EndLevel ==
    /\ stack # <<>>
    /\ Top.pc = "recurse"
    /\ Top.i > Len(Top.dirs)
    /\ stack' = SetTop([Top EXCEPT !.pc = "walk"])
    /\ UNCHANGED <<tree, tags, tmpfs, tmpCount, pool, nextTask, log, invocations,
                   returned, raised>>

\* line 99 and line 98: os.walk is exhausted, the call returns its failures,
\* and the caller adds them to its own
Return ==
    /\ stack # <<>>
    /\ Top.pc = "walk"
    /\ Top.walk = <<>>
    /\ IF Len(stack) = 1
       THEN /\ stack' = <<>>
            /\ returned' = <<Top.failures>>
       ELSE LET caller == stack[Len(stack) - 1]
            IN  /\ stack' = [SubSeq(stack, 1, Len(stack) - 1) EXCEPT ![Len(stack) - 1] =
                                [caller EXCEPT !.failures = @ \o Top.failures,
                                               !.i = @ + 1,
                                               !.pc = "recurse"]]
                /\ UNCHANGED returned
    /\ UNCHANGED <<tree, tags, tmpfs, tmpCount, pool, nextTask, log, invocations, raised>>

(***************************************************************************)
(* The File Processor: process_single_file, find_and_set_new_album_art,    *)
(* download_album_art_from_itunes and set_album_art_in_audio_file.  A task *)
(* runs from one await to the next in one step.  Tasks run while the       *)
(* walker awaits gather; the event loop's ready queue is first in, first   *)
(* out, so the tasks of a level start in the order they were made, and all *)
(* of them start before a response reaches any of them.                    *)
(***************************************************************************)
\* line 93: the walker is suspended in its await
Suspended == stack # <<>> /\ Top.pc = "gather"

AllStarted == \A j \in DOMAIN pool : pool[j].pc # "scheduled"

\* a started task that waits at position pc can go on
Resumes(k, pc) ==
    /\ Suspended
    /\ AllStarted
    /\ pool[k].pc = pc

\* line 78, tempfile.TemporaryDirectory(): mkdtemp makes a directory of a name
\* not used before
MkDTemp(count) == count + 1

\* a temporary directory that is never removed
RemoveTree_keep(fs, temp_dir) == fs

\* line 78, leaving the with block: the directory and its files are removed
RemoveTree(fs, temp_dir) == [d \in DOMAIN fs \ {temp_dir} |-> fs[d]]

\* lines 62-63: the destination file is opened for writing and the body written
WriteFile(fs, temp_dir, name, bytes) == [fs EXCEPT ![temp_dir] = (name :> bytes)]

\* an exception leaves find_and_set_new_album_art: the with block of line 78
\* removes the temporary directory, lines 71-73 log the path and raise again,
\* and the task ends with the exception
Fail(k, task, exc) ==
    /\ pool' = [pool EXCEPT ![k] = [task EXCEPT !.pc = "failed", !.exc = exc]]
    /\ tmpfs' = RemoveTree(tmpfs, task.temp_dir)
    /\ log' = Append(log, task.mp3_path)

\* line 65 raising another exception type
NoArtworkError_value == "ValueError"

\* line 65: the exception raised when the loop ends without a download
NoArtworkError == "RuntimeError"

\* the loop ending without the raise of line 65: the download returns, the tag
\* writer is called and fails on the image file that was never written
Lookup_noraise(k, task, res_i) ==
    LET c == NextCandidate(task.data[1], res_i)
    IN  IF c = 0
        THEN Fail(k, [task EXCEPT !.tagWriter = TRUE, !.audio = tags[task.mp3_path]],
                  "FileNotFoundError")
        ELSE /\ pool' = [pool EXCEPT ![k] = [task EXCEPT
                    !.pc = "download",
                    !.res_i = c,
                    !.requests = Append(@, Upgrade(task.data[1].results[c].artworkUrl100))]]
             /\ UNCHANGED <<tmpfs, log>>

\* lines 55-60 from index res_i: the next record with an artwork URL is
\* requested, or the loop ends and line 65 raises
Lookup(k, task, res_i) ==
    LET c == NextCandidate(task.data[1], res_i)
    IN  IF c = 0
        THEN Fail(k, task, NoArtworkError)
        ELSE /\ pool' = [pool EXCEPT ![k] = [task EXCEPT
                    !.pc = "download",
                    !.res_i = c,
                    !.requests = Append(@, Upgrade(task.data[1].results[c].artworkUrl100))]]
             /\ UNCHANGED <<tmpfs, log>>

\* the task's first step: lines 70, 77-79 and 46-51, up to the search request
Start(k) ==
    /\ Suspended
    /\ pool[k].pc = "scheduled"
    /\ \A j \in DOMAIN pool : j < k => pool[j].pc # "scheduled"
    /\ LET song_title == SongTitle(pool[k].mp3_path)
           temp_dir == MkDTemp(tmpCount)
       IN  /\ tmpCount' = temp_dir
           /\ tmpfs' = tmpfs @@ (temp_dir :> <<>>)
           /\ pool' = [pool EXCEPT ![k] = [@ EXCEPT
                    !.pc = "search",
                    !.song_title = song_title,
                    !.temp_dir = temp_dir,
                    !.album_art_name = AlbumArtName(song_title),
                    !.query = quote(song_title),
                    !.tagsBefore = tags[pool[k].mp3_path]]]
    /\ UNCHANGED <<tree, tags, stack, nextTask, log, invocations, returned, raised>>

\* lines 51-57: the search response arrives and is parsed, and the loop over
\* its records begins
SearchResponse(k) ==
    /\ Resumes(k, "search")
    /\ \E data \in Responses :
          Lookup(k, [pool[k] EXCEPT !.data = <<data>>], 1)
    /\ UNCHANGED <<tree, tags, tmpCount, stack, nextTask, invocations, returned, raised>>

\* lines 50-53: the search request or the parse of its response fails
SearchError(k) ==
    /\ Resumes(k, "search")
    /\ Fail(k, pool[k], "ClientError")
    /\ UNCHANGED <<tree, tags, tmpCount, stack, nextTask, invocations, returned, raised>>

\* lines 60-62: the artwork response arrives; on status 200 the destination
\* file is opened, on any other status the loop goes on with the next record
DownloadResponse(k) ==
    /\ Resumes(k, "download")
    /\ \E status \in Statuses :
          IF status = 200
          THEN /\ pool' = [pool EXCEPT ![k] = [@ EXCEPT !.pc = "write"]]
               /\ UNCHANGED <<tmpfs, log>>
          ELSE Lookup(k, pool[k], pool[k].res_i + 1)
    /\ UNCHANGED <<tree, tags, tmpCount, stack, nextTask, invocations, returned, raised>>

\* lines 59-63: the artwork request, or reading its body, fails
DownloadError(k) ==
    /\ pool[k].pc \in {"download", "write"}
    /\ Resumes(k, pool[k].pc)
    /\ Fail(k, pool[k], "ClientError")
    /\ UNCHANGED <<tree, tags, tmpCount, stack, nextTask, invocations, returned, raised>>

\* lines 63-64, 81 and 23-24: the body is written to the destination file and
\* the download returns; the tag writer is called, loads the audio file's
\* container and opens the image file
WriteDone(k) ==
    /\ Resumes(k, "write")
    /\ tmpfs' = WriteFile(tmpfs, pool[k].temp_dir, pool[k].album_art_name,
                          Body(pool[k].requests[Len(pool[k].requests)]))
    /\ pool' = [pool EXCEPT ![k] = [@ EXCEPT
                    !.pc = "imgread",
                    !.written = TRUE,
                    !.tagWriter = TRUE,
                    !.audio = tags[pool[k].mp3_path]]]
    /\ UNCHANGED <<tree, tags, tmpCount, stack, nextTask, log, invocations,
                   returned, raised>>

\* lines 25-42: the image is read, the container gets its tag structure and
\* the cover frame, and the save is handed to a thread
ImgRead(k) ==
    /\ Resumes(k, "imgread")
    /\ LET img_data == tmpfs[pool[k].temp_dir][pool[k].album_art_name]
       IN  pool' = [pool EXCEPT ![k] = [@ EXCEPT
                    !.pc = "save",
                    !.img_data = <<img_data>>,
                    !.audio = TagsWithCover(@, img_data)]]
    /\ UNCHANGED <<tree, tags, tmpfs, tmpCount, stack, nextTask, log, invocations,
                   returned, raised>>

\* line 42 and the end of lines 78-81: audio.save rewrites the file's
\* container, the with block removes the temporary directory, the task ends
Save(k) ==
    /\ Resumes(k, "save")
    /\ tags' = [tags EXCEPT ![pool[k].mp3_path] = pool[k].audio]
    /\ tmpfs' = RemoveTree(tmpfs, pool[k].temp_dir)
    /\ pool' = [pool EXCEPT ![k] = [@ EXCEPT !.pc = "ok"]]
    /\ UNCHANGED <<tree, tmpCount, stack, nextTask, log, invocations, returned, raised>>

\* lines 23-42: the tag writer fails (the audio file is malformed, the image
\* cannot be read, or the save fails) and the file's container is not rewritten
TagWriteError(k) ==
    /\ pool[k].pc \in {"imgread", "save"}
    /\ Resumes(k, pool[k].pc)
    /\ Fail(k, pool[k], "MutagenError")
    /\ UNCHANGED <<tree, tags, tmpCount, stack, nextTask, invocations, returned, raised>>

Next ==
    \/ WalkNext
    \/ Dispatch
    \/ AwaitGather
    \/ Gather
    \/ Recurse
    \/ EndLevel
    \/ Return
    \/ \E k \in DOMAIN pool : Start(k)
    \/ \E k \in DOMAIN pool : SearchResponse(k)
    \/ \E k \in DOMAIN pool : SearchError(k)
    \/ \E k \in DOMAIN pool : DownloadResponse(k)
    \/ \E k \in DOMAIN pool : DownloadError(k)
    \/ \E k \in DOMAIN pool : WriteDone(k)
    \/ \E k \in DOMAIN pool : ImgRead(k)
    \/ \E k \in DOMAIN pool : Save(k)
    \/ \E k \in DOMAIN pool : TagWriteError(k)

Spec == Init /\ [][Next]_vars

(***************************************************************************)
(* Properties.                                                              *)
(***************************************************************************)
Range(f) == {f[x] : x \in DOMAIN f}

\* the directory of a path: everything before its last separator
DirName(path) == SubSeq(path, 1, SetMax(Positions(path, sep)) - 1)

\* a base name with only its extension removed: everything before its last dot
WithoutExtension(name) ==
    IF Positions(name, ".") = {} THEN name
    ELSE SubSeq(name, 1, SetMax(Positions(name, ".")) - 1)

\* a task that has started and has not ended
InProgress(k) == pool[k].pc \notin Finished \cup {"scheduled"}

\* the upgraded artwork URLs of the records of a response that carry one, in
\* the order of the records
Candidates(data) ==
    LET with == SelectSeq(data.results, HasArt)
    IN  [n \in 1..Len(with) |-> [art |-> with[n].artworkUrl100.art, size |-> "256x256"]]

IsPrefix(s, t) == Len(s) <= Len(t) /\ SubSeq(t, 1, Len(s)) = s

\* C1: when gather returns for a level all of whose File Processor tasks
\* succeeded, the level adds no entry to the failure list.
C1_NoFailuresWhenAllSucceed ==
    [][(/\ Suspended
        /\ Len(stack') = Len(stack)
        /\ Top'.pc = "recurse"
        /\ \A n \in 1..Len(Top.tasks) : pool[Top.tasks[n]].pc = "ok")
       => Top'.failures = Top.failures]_vars

\* C2: no audio file has the File Processor invoked on it twice, and when the
\* run has returned every audio file of the tree has had it invoked once.
C2_EachFileOnce ==
    \A p \in Mp3Paths(tree) :
        /\ invocations[p] <= 1
        /\ returned # <<>> => invocations[p] = 1

\* C3: no exception leaves process_mp3_files and the run ends by returning a
\* list; whenever the walker is past the gather of a level, every task made
\* for the level has ended (as ok or with its own exception); and the path of
\* every failed task has been logged.
C3_FailuresIsolated ==
    /\ ~raised
    /\ stack = <<>> => returned # <<>>
    /\ (stack = <<>> \/ Top.pc \notin {"dispatch", "gather"}) => DOMAIN pool = {}
    /\ \A k \in DOMAIN pool :
          /\ pool[k].pc = "failed" => pool[k].mp3_path \in Range(log)
          /\ ResultOf(pool[k]) \in {"pending", "None", "RuntimeError", "ClientError",
                                    "MutagenError"}

\* a level where one task has failed and a sibling has gone on to succeed
C3_Witness ==
    \E j, k \in DOMAIN pool :
        /\ j < k
        /\ pool[j].pc = "failed"
        /\ pool[j].exc = "RuntimeError"
        /\ pool[k].pc = "ok"
        /\ DirName(pool[j].mp3_path) = DirName(pool[k].mp3_path)

\* C4: a temporary directory exists only while the one invocation that made
\* it is in progress: an invocation that has ended has left none behind, and
\* no two invocations hold the same one.
C4_TempRemoved ==
    /\ \A k \in DOMAIN pool :
          pool[k].pc \in Finished => pool[k].temp_dir \notin DOMAIN tmpfs
    /\ \A d \in DOMAIN tmpfs :
          \E k \in DOMAIN pool :
              /\ InProgress(k)
              /\ pool[k].temp_dir = d
              /\ \A j \in DOMAIN pool \ {k} : pool[j].temp_dir # d
    /\ (stack = <<>> \/ Top.pc # "gather") => DOMAIN tmpfs = {}

\* an invocation that wrote its artwork file and then failed, beside one that
\* succeeded
C4_Witness ==
    \E j, k \in DOMAIN pool :
        /\ pool[j].pc = "failed"
        /\ pool[j].written
        /\ pool[k].pc = "ok"

\* C5: a search response none of whose records has an artwork URL makes the
\* invocation fail with RuntimeError, with no artwork request made and no
\* destination file written.
C5_NoArtworkFails ==
    \A k \in DOMAIN pool :
        (/\ pool[k].data # <<>>
         /\ \A i \in 1..Len(pool[k].data[1].results) : ~HasArt(pool[k].data[1].results[i]))
        => /\ pool[k].pc = "failed"
           /\ pool[k].exc = "RuntimeError"
           /\ pool[k].requests = <<>>
           /\ ~pool[k].written
           /\ pool[k].temp_dir \notin DOMAIN tmpfs

\* a response with records, none of them with an artwork URL
C5_Witness ==
    \E k \in DOMAIN pool :
        /\ pool[k].data # <<>>
        /\ pool[k].data[1].resultCount = MaxResults
        /\ \A i \in 1..Len(pool[k].data[1].results) : ~HasArt(pool[k].data[1].results[i])

\* C6: after a successful invocation on a file that had no tag structure, the
\* file's container holds exactly one frame: MIME type image/jpeg, type 3,
\* description Cover, and the bytes served for the URL requested last.
C6_OneCoverFrame ==
    \A k \in DOMAIN pool :
        (pool[k].pc = "ok" /\ pool[k].tagsBefore = <<>>)
        => /\ tags[pool[k].mp3_path] # <<>>
           /\ Cardinality(tags[pool[k].mp3_path][1]) = 1
           /\ \A f \in tags[pool[k].mp3_path][1] :
                 /\ f.mime = "image/jpeg"
                 /\ f.type = 3
                 /\ f.desc = <<"Cover">>
                 /\ f.data = [image |-> pool[k].data[1].results[pool[k].res_i].artworkUrl100.art,
                              size |-> "256x256"]

\* a successful invocation on a file without tags, served by the second record
C6_Witness ==
    \E k \in DOMAIN pool :
        /\ pool[k].pc = "ok"
        /\ pool[k].tagsBefore = <<>>
        /\ pool[k].res_i = 2

\* C7: a task runs only while the walker awaits the gather of the task's own
\* level, after every matching file of that level has been dispatched; every
\* task not yet ended belongs to that level; and by then the files of the
\* parent directory have been dispatched (and, not being in the pool, ended).
C7_LevelsSequential ==
    \A k \in DOMAIN pool :
        /\ pool[k].pc \notin Finished =>
              /\ stack # <<>>
              /\ Top.pc \in {"dispatch", "gather"}
              /\ DirName(pool[k].mp3_path) = Top.root
              /\ \E n \in 1..Len(Top.tasks) : Top.tasks[n] = k
        /\ pool[k].pc # "scheduled" =>
              /\ stack # <<>>
              /\ Top.pc = "gather"
              /\ Len(Top.tasks) = Cardinality({n \in 1..Len(Top.files) : IsMp3(Top.files[n])})
              /\ \A p \in Mp3Paths(tree) :
                    DirName(p) = DirName(DirName(pool[k].mp3_path)) =>
                        /\ invocations[p] >= 1
                        /\ \A j \in DOMAIN pool : pool[j].mp3_path # p

\* a task of a subdirectory running, its parent directory holding an audio file
C7_Witness ==
    \E k \in DOMAIN pool :
        /\ InProgress(k)
        /\ \E p \in Mp3Paths(tree) : DirName(p) = DirName(DirName(pool[k].mp3_path))

C9_TitleIsBaseNameWithoutExtension ==
    \A k \in DOMAIN pool :
        pool[k].pc # "scheduled" =>
            pool[k].song_title = WithoutExtension(SplitLast(pool[k].mp3_path, sep))

\* C10: an invocation that failed at the lookup or the download (before its
\* destination file was written) never called the tag writer, and the file's container is the one it had when the
\* invocation started.
C10_FailedLookupLeavesTags ==
    \A k \in DOMAIN pool :
        (pool[k].pc = "failed" /\ ~pool[k].written)
        => /\ pool[k].exc \in {"RuntimeError", "ClientError"}
           /\ ~pool[k].tagWriter
           /\ pool[k].audio = <<>>
           /\ tags[pool[k].mp3_path] = pool[k].tagsBefore

\* an invocation on a file with a cover frame that failed after every
\* candidate's download was answered with a status other than 200
C10_Witness ==
    \E k \in DOMAIN pool :
        /\ pool[k].pc = "failed"
        /\ pool[k].exc = "RuntimeError"
        /\ Len(pool[k].requests) = 2
        /\ pool[k].tagsBefore # <<>>

====
